---- MODULE Spec2Model ----
(***************************************************************************)
(* hapiy-etl: incremental sync of a GitHub repository's commit history     *)
(* into a Deno KV store (git_etl.ts).  The model follows the current       *)
(* revision of the program: getCommits, parseCommits, storeCommits,        *)
(* getLatestStoredCommitTimestamp, the config validators, readConfig,      *)
(* clearKvFiles, main and the import.meta.main block.                      *)
(*                                                                         *)
(* Encoding of JavaScript values:                                          *)
(*   - an ISO-8601 date string of the GitHub API is the whole number of    *)
(*     seconds it denotes; a Date is its number of milliseconds; an        *)
(*     absent date (undefined) is NoDate;                                  *)
(*   - a string is a sequence of tokens (chunks of characters); "." and    *)
(*     "/" are tokens of their own, so that path.extname can be computed;  *)
(*   - a loosely typed config value is a record [t, s, b]: its typeof      *)
(*     tag, its string value and its boolean value.                        *)
(***************************************************************************)
EXTENDS Integers, Sequences, FiniteSets, TLC

VARIABLES
    configFile,      \* the imported config.json
    phase,           \* position of the import.meta.main block
    cfgFailed,       \* the field whose validator threw in readConfig, or "none"
    options,         \* RunOptions returned by readConfig
    upstream,        \* the GitHub repository: sha -> commit body, or NoBody
    store,           \* the Deno KV store opened on options.kvFilename
    pc,              \* position of the running main(), "none" when no cycle runs
    maxTimestamp,    \* local of main: the 'since' handed to getCommits
    data,            \* local of main: the commits returned by getCommits
    parsedCommits,   \* local of main: parseCommits(data)
    idx,             \* storeCommits: index of the next commit to write
    wmStart,         \* history: getLatestStoredCommitTimestamp at the cycle's start
    storeStart,      \* history: the store at the cycle's start
    lastWrite,       \* history: key -> value of the latest kv.set on that key
    triggers,        \* history: number of cron triggers so far
    nPush,           \* history: number of upstream changes so far
    files,           \* the names of the files of the working directory
    removed,         \* history: the files this process has removed
    effects,         \* history: the outside calls this process has made
    cycles,          \* history: number of calls of main by this process
    done,            \* history: number of calls of main that returned
    failedSince,     \* history: the 'since' of the fetch that failed last, if any
    nRestart,        \* history: number of restarts of the process
    main2,           \* a call of main begun while another call is running
    cronBusy,        \* Deno.cron: a call of the callback is running
    ingested         \* history: the (owner, repo) each stored key was written for

vars == <<configFile, phase, cfgFailed, options, upstream, store, pc,
          maxTimestamp, data, parsedCommits, idx, wmStart, storeStart, lastWrite,
          triggers, nPush, files, removed, effects, cycles, done, failedSince,
          nRestart, main2, cronBusy, ingested>>

\* the history of one process
procVars == <<removed, effects, cycles, done, failedSince>>

(***************************************************************************)
(* Bounds of the model.                                                    *)
(***************************************************************************)
\* number of distinct commit hashes the upstream repository can hold
NumShas == 3
\* commit dates range over 1..MaxTime seconds
MaxTime == 3
\* number of changes of the upstream repository in one behaviour
MaxPush == 2
\* number of cron triggers after the initial run
MaxTriggers == 1
\* length of the arrays handed to parseCommits in the parseCommits specification
MaxBatch == 2
\* length, in tokens, of the configured store filenames
MaxNameLen == 4
\* number of restarts of the process in one behaviour
MaxRestarts == 1
\* number of cron triggers in the specification with failing cycles
MaxFailTriggers == 2
\* number of changes of the upstream repository in that specification
MaxFailPush == 1
\* number of changes of the upstream repository before a cycle whose store fails
MaxAbortPush == 2
\* number of calls of main after the initial one when calls may overlap
MaxOverlapCalls == 2

(***************************************************************************)
(* Program constants.                                                      *)
(***************************************************************************)
\* import { SECOND } from "@std/datetime": milliseconds in a second
SECOND == 1000
\* the undefined Date / the absent date string
NoDate == -1

Shas == 1..NumShas
RawDates == 1..MaxTime
NoEmail == "undefined"
AuthorEmail == "author@x"
CommitterEmail == "committer@x"
Messages == {"m1", "m2"}

(***************************************************************************)
(* Raw commits: one element of ListCommitsResponse,                        *)
(*   {sha, commit: {message, author?: {email, date}, committer?: {...}}}.  *)
(***************************************************************************)
NoPerson == [present |-> FALSE, email |-> NoEmail, date |-> NoDate]
Persons(email) ==
    {NoPerson} \cup [present : {TRUE}, email : {email}, date : RawDates \cup {NoDate}]
RawBodies ==
    [message : Messages, author : Persons(AuthorEmail), committer : Persons(CommitterEmail)]
RawCommit(sha, body) ==
    [sha |-> sha, message |-> body.message, author |-> body.author,
     committer |-> body.committer]
RawCommits == {RawCommit(h, b) : h \in Shas, b \in RawBodies}

\* new Date(isoString)
NewDate(iso) == iso * 1000

(***************************************************************************)
(* parseCommits                                                            *)
(***************************************************************************)
\* the body of the for loop: one raw commit to one CommitData
ParseOneNoFallbackEmail(item) ==
    LET email1 == IF item.author.present THEN item.author.email ELSE NoEmail
        date1 == IF item.author.present /\ item.author.date # NoDate
                 THEN NewDate(item.author.date) ELSE NoDate
        fallback == date1 = NoDate /\ item.committer.present
                    /\ item.committer.date # NoDate
    IN << [commitHash |-> item.sha,
           commitTimestamp |-> IF fallback THEN NewDate(item.committer.date) ELSE date1,
           commitMessage |-> item.message,
           commitEmail |-> email1] >>

ParseOneDropsUndated(item) ==
    LET email1 == IF item.author.present THEN item.author.email ELSE NoEmail
        date1 == IF item.author.present /\ item.author.date # NoDate
                 THEN NewDate(item.author.date) ELSE NoDate
        fallback == date1 = NoDate /\ item.committer.present
                    /\ item.committer.date # NoDate
    IN IF date1 = NoDate /\ ~fallback
       THEN <<>>
       ELSE << [commitHash |-> item.sha,
                commitTimestamp |-> IF fallback THEN NewDate(item.committer.date) ELSE date1,
                commitMessage |-> item.message,
                commitEmail |-> IF fallback THEN item.committer.email ELSE email1] >>

ParseOneAnyCommitterEmail(item) ==
    LET email1 == IF item.author.present THEN item.author.email ELSE NoEmail
        date1 == IF item.author.present /\ item.author.date # NoDate
                 THEN NewDate(item.author.date) ELSE NoDate
        fallback == date1 = NoDate /\ item.committer.present
                    /\ item.committer.date # NoDate
    IN << [commitHash |-> item.sha,
           commitTimestamp |-> IF fallback THEN NewDate(item.committer.date) ELSE date1,
           commitMessage |-> item.message,
           commitEmail |-> IF date1 = NoDate /\ item.committer.present
                           THEN item.committer.email ELSE email1] >>

ParseOne(item) ==
    LET email1 == IF item.author.present THEN item.author.email ELSE NoEmail
        date1 == IF item.author.present /\ item.author.date # NoDate
                 THEN NewDate(item.author.date) ELSE NoDate
        fallback == date1 = NoDate /\ item.committer.present
                    /\ item.committer.date # NoDate
    IN << [commitHash |-> item.sha,
           commitTimestamp |-> IF fallback THEN NewDate(item.committer.date) ELSE date1,
           commitMessage |-> item.message,
           commitEmail |-> IF fallback THEN item.committer.email ELSE email1] >>

\* parsedCommits.unshift(commit) in place of parsedCommits.push(commit)
RECURSIVE parseCommitsPrepends(_)
parseCommitsPrepends(commits) ==
    IF commits = <<>> THEN <<>>
    ELSE parseCommitsPrepends(Tail(commits)) \o ParseOne(Head(commits))

RECURSIVE parseCommits(_)
parseCommits(commits) ==
    IF commits = <<>> THEN <<>>
    ELSE ParseOne(Head(commits)) \o parseCommits(Tail(commits))

(***************************************************************************)
(* The Deno KV store: a set of entries [key, value]; a key is              *)
(* <<`commits/${repo}`, commitHash>>.                                      *)
(***************************************************************************)
\* the template string `commits/${repo}`
KeyPrefix(repo) == <<"commits/">> \o repo

\* the key of storeCommits: [`commits/${repo}`, commit.commitHash]
CommitKeyNoHash(repo, commit) == <<KeyPrefix(repo), 0>>

CommitKey(repo, commit) == <<KeyPrefix(repo), commit.commitHash>>

\* kv.set(key, value)
KvSetAppends(kv, key, value) == kv \cup {[key |-> key, value |-> value]}

\* a set that first drops the other records under the same prefix
KvSetDropsOthers(kv, key, value) ==
    {e \in kv : e.key[1] # key[1]} \cup {[key |-> key, value |-> value]}

KvSet(kv, key, value) ==
    {e \in kv : e.key # key} \cup {[key |-> key, value |-> value]}

\* kv.list({prefix: [p]}): the entries under the prefix, in key order
RECURSIVE KvList(_, _)
KvList(kv, p) ==
    LET under == {e \in kv : e.key[1] = p}
    IN IF under = {} THEN <<>>
       ELSE LET first == CHOOSE e \in under : \A f \in under : e.key[2] <= f.key[2]
            IN <<first>> \o KvList(kv \ {first}, p)

\* the comparison without its second disjunct: the first timestamp is kept
ScanStepKeepsFirst(maxTs, timestamp) ==
    IF maxTs = NoDate THEN timestamp ELSE maxTs

\* the comparison without its test of the record's timestamp
ScanStepAbsentDisplaces(maxTs, timestamp) ==
    IF maxTs = NoDate \/ timestamp = NoDate \/ timestamp > maxTs
    THEN timestamp ELSE maxTs

\* if (!maxTimestamp || (timestamp && timestamp > maxTimestamp)) maxTimestamp = timestamp
ScanStep(maxTs, timestamp) ==
    IF maxTs = NoDate \/ (timestamp # NoDate /\ timestamp > maxTs)
    THEN timestamp ELSE maxTs

\* the for await loop of getLatestStoredCommitTimestamp
RECURSIVE ScanMax(_, _)
ScanMax(entries, maxTs) ==
    IF entries = <<>> THEN maxTs
    ELSE ScanMax(Tail(entries), ScanStep(maxTs, Head(entries).value.commitTimestamp))

getLatestStoredCommitTimestamp(kv, repo) == ScanMax(KvList(kv, KeyPrefix(repo)), NoDate)

(***************************************************************************)
(* Loosely typed config values (configFile.* is `unknown` to the           *)
(* validators).                                                            *)
(***************************************************************************)
JsUndefined == [t |-> "undefined", s |-> <<>>, b |-> FALSE]
\* null: typeof null is "object"
JsNull == [t |-> "object", s |-> <<>>, b |-> FALSE]
JsString(str) == [t |-> "string", s |-> str, b |-> FALSE]
JsBoolean(bool) == [t |-> "boolean", s |-> <<>>, b |-> bool]
\* a non-zero number; b records that it is truthy
JsNumber == [t |-> "number", s |-> <<>>, b |-> TRUE]

\* JavaScript truthiness of a config value
Truthy(cfg) ==
    CASE cfg.t = "undefined" -> FALSE
      [] cfg.t = "object" -> FALSE
      [] cfg.t = "string" -> cfg.s # <<>>
      [] cfg.t = "boolean" -> cfg.b
      [] cfg.t = "number" -> cfg.b

isNonEmptyConfigString(cfg) == Truthy(cfg) /\ cfg.t = "string" /\ cfg.s # <<>>

\* the defaultRunOptions of readConfig
DefaultRepo == <<"cs4550hw01">>
DefaultOwner == <<"nakennedy11">>
DefaultCron == <<"*/5 * * * *">>
DefaultKvFilename == <<".", "commitHistory", ".", "sqlite">>
DefaultClearKvOnStartupOff == FALSE
DefaultClearKvOnStartup == TRUE
DefaultUseGithubToken == FALSE

\* a validator returns a value or throws
Return(v) == [threw |-> FALSE, val |-> v]
Throw(v) == [threw |-> TRUE, val |-> v]

(***************************************************************************)
(* validateRepoConfig                                                      *)
(***************************************************************************)
validateRepoConfigDefaults(owner, defaultOwner, repo, defaultRepo) ==
    IF isNonEmptyConfigString(owner) /\ isNonEmptyConfigString(repo)
    THEN Return([repo |-> repo.s, owner |-> owner.s])
    ELSE Return([repo |-> defaultRepo, owner |-> defaultOwner])

validateRepoConfigPerField(owner, defaultOwner, repo, defaultRepo) ==
    LET validOwner == isNonEmptyConfigString(owner)
        validRepo == isNonEmptyConfigString(repo)
    IN IF validOwner /\ validRepo
       THEN Return([repo |-> repo.s, owner |-> owner.s])
       ELSE IF validOwner /\ ~validRepo
       THEN Return([repo |-> defaultRepo, owner |-> owner.s])
       ELSE IF ~validOwner /\ validRepo
       THEN Throw([repo |-> defaultRepo, owner |-> defaultOwner])
       ELSE Return([repo |-> defaultRepo, owner |-> defaultOwner])

validateRepoConfig(owner, defaultOwner, repo, defaultRepo) ==
    LET validOwner == isNonEmptyConfigString(owner)
        validRepo == isNonEmptyConfigString(repo)
    IN IF validOwner /\ validRepo
       THEN Return([repo |-> repo.s, owner |-> owner.s])
       ELSE IF (validOwner /\ ~validRepo) \/ (~validOwner /\ validRepo)
       THEN Throw([repo |-> defaultRepo, owner |-> defaultOwner])
       ELSE Return([repo |-> defaultRepo, owner |-> defaultOwner])

(***************************************************************************)
(* validateCronConfig                                                      *)
(***************************************************************************)
\* the strings CronExpressionParser.parse accepts (it throws on the others)
ParseableCron == {DefaultCron, <<"* * * * *">>}
CronExpressionParserParses(str) == str \in ParseableCron

validateCronConfig(cronExpression, defaultCronExp) ==
    IF isNonEmptyConfigString(cronExpression)
    THEN IF CronExpressionParserParses(configFile.cronSchedule.s)
         THEN Return(cronExpression.s)
         ELSE Throw(defaultCronExp)
    ELSE Return(defaultCronExp)

(***************************************************************************)
(* validatekvFilenameConfig, with path.extname of @std/path (posix)        *)
(***************************************************************************)
\* the loop of extname, from index i (0-based) down to 0
RECURSIVE ExtScan(_, _, _)
ExtScan(path, i, st) ==
    IF i < 0 THEN st
    ELSE LET code == path[i + 1]
         IN IF code = "/"
            THEN IF ~st.matchedSlash
                 THEN [st EXCEPT !.startPart = i + 1]
                 ELSE ExtScan(path, i - 1, st)
            ELSE LET st1 == IF st.end = -1
                            THEN [st EXCEPT !.matchedSlash = FALSE, !.end = i + 1]
                            ELSE st
                     st2 == IF code = "."
                            THEN IF st1.startDot = -1
                                 THEN [st1 EXCEPT !.startDot = i]
                                 ELSE IF st1.preDotState # 1
                                      THEN [st1 EXCEPT !.preDotState = 1]
                                      ELSE st1
                            ELSE IF st1.startDot # -1
                                 THEN [st1 EXCEPT !.preDotState = -1]
                                 ELSE st1
                 IN ExtScan(path, i - 1, st2)

extname(path) ==
    LET st == ExtScan(path, Len(path) - 1,
                      [startDot |-> -1, startPart |-> 0, end |-> -1,
                       matchedSlash |-> TRUE, preDotState |-> 0])
    IN IF \/ st.startDot = -1
          \/ st.end = -1
          \/ st.preDotState = 0
          \/ (st.preDotState = 1 /\ st.startDot = st.end - 1
              /\ st.startDot = st.startPart + 1)
       THEN <<>>
       ELSE SubSeq(path, st.startDot + 1, st.end)

validatekvFilenameConfig(kvFilename, defaultkvFilename) ==
    IF isNonEmptyConfigString(kvFilename)
    THEN IF extname(configFile.kvFilename.s) = <<".", "sqlite">>
         THEN Return(kvFilename.s)
         ELSE Throw(defaultkvFilename)
    ELSE Return(defaultkvFilename)

(***************************************************************************)
(* validateYNConfig                                                        *)
(***************************************************************************)
\* every value that is not a boolean yields the default
validateYNConfigDefaults(fieldName, defaultVal, configVal) ==
    IF configVal.t = "boolean" THEN Return(configVal.b) ELSE Return(defaultVal)

validateYNConfig(fieldName, defaultVal, configVal) ==
    IF configVal.t = "undefined" THEN Return(defaultVal)
    ELSE IF configVal.t = "boolean" THEN Return(configVal.b)
    ELSE Throw(defaultVal)

(***************************************************************************)
(* readConfig: the validators run in the order of the object literal; the  *)
(* first one that throws ends readConfig.                                  *)
(***************************************************************************)
NoOptions ==
    [repo |-> <<>>, owner |-> <<>>, cronSchedule |-> <<>>, kvFilename |-> <<>>,
     clearKvOnStartup |-> FALSE, useGithubToken |-> FALSE]

readConfig ==
    LET repoInfo == validateRepoConfig(configFile.owner, DefaultOwner,
                                       configFile.repo, DefaultRepo)
        cron == validateCronConfig(configFile.cronSchedule, DefaultCron)
        kvName == validatekvFilenameConfig(configFile.kvFilename, DefaultKvFilename)
        clear == validateYNConfig("clearKvOnStartup", DefaultClearKvOnStartup,
                                  configFile.clearKvOnStartup)
        token == validateYNConfig("useGithubToken", DefaultUseGithubToken,
                                  configFile.useGithubToken)
        failed == IF repoInfo.threw THEN "repo"
                  ELSE IF cron.threw THEN "cronSchedule"
                  ELSE IF kvName.threw THEN "kvFilename"
                  ELSE IF clear.threw THEN "clearKvOnStartup"
                  ELSE IF token.threw THEN "useGithubToken"
                  ELSE "none"
    IN [failed |-> failed,
        options |-> IF failed # "none" THEN NoOptions
                    ELSE [repo |-> repoInfo.val.repo, owner |-> repoInfo.val.owner,
                          cronSchedule |-> cron.val, kvFilename |-> kvName.val,
                          clearKvOnStartup |-> clear.val,
                          useGithubToken |-> token.val]]

(***************************************************************************)
(* The working directory and clearKvFiles.  A directory is the set of the  *)
(* names of its files.  Deno.openKv(path) keeps the store in the file the  *)
(* path names: a file of the working directory when the path is a bare     *)
(* name or "./" followed by one, a file elsewhere otherwise.               *)
(***************************************************************************)
HasSlash(path) == \E i \in 1..Len(path) : path[i] = "/"

\* the path leads out of the working directory
Elsewhere == <<>>

\* the file of the working directory that holds the store opened on `path`
KvFile(path) ==
    IF ~HasSlash(path) THEN path
    ELSE IF /\ Len(path) >= 3
            /\ path[1] = "." /\ path[2] = "/"
            /\ ~HasSlash(SubSeq(path, 3, Len(path)))
         THEN SubSeq(path, 3, Len(path))
         ELSE Elsewhere

\* String.prototype.includes
Includes(name, kvFilename) ==
    \E i \in 0..(Len(name) - Len(kvFilename)) :
       SubSeq(name, i + 1, i + Len(kvFilename)) = kvFilename

\* the entries of Deno.readDir("./") that clearKvFiles removes
clearKvFiles(dir, kvFilename) == {name \in dir : Includes(name, kvFilename)}

(***************************************************************************)
(* The upstream repository and getCommits.  octokit.paginate returns, as   *)
(* one flat array, the commits of the repository that pass the API's       *)
(* inclusive `since` filter on the commit's date; without `since` it       *)
(* returns all of them.  The order of the array is left open, and so is    *)
(* whether a commit that carries no date passes a `since` filter.          *)
(***************************************************************************)
NoBody == [message |-> "none", author |-> NoPerson, committer |-> NoPerson]

\* the bodies the upstream repository takes in the sync specification, one for
\* each result parseCommits can give: dated by the author (the committer carries
\* the same date), dated by the committer alone, and undated with or without an
\* author email
UpstreamBodies ==
    {b \in RawBodies :
        /\ b.message = "m1"
        /\ (b.author.present /\ b.author.date # NoDate)
              => (b.committer.present /\ b.committer.date = b.author.date)
        /\ (b.author.present /\ b.author.date = NoDate) => ~b.committer.present
        /\ b.committer.present => b.committer.date # NoDate}

\* the date of a commit as the API sees it
UpstreamDate(raw) ==
    IF raw.author.present /\ raw.author.date # NoDate THEN raw.author.date
    ELSE IF raw.committer.present /\ raw.committer.date # NoDate THEN raw.committer.date
    ELSE NoDate

UpstreamCommits == {RawCommit(h, upstream[h]) : h \in {x \in Shas : upstream[x] # NoBody}}

\* since: timestamp?.toISOString(), an inclusive lower bound
SinceFilter(raw, since) ==
    since = NoDate \/ (UpstreamDate(raw) # NoDate /\ NewDate(UpstreamDate(raw)) >= since)

RECURSIVE Perms(_)
Perms(S) ==
    IF S = {} THEN {<<>>}
    ELSE UNION {{<<x>> \o q : q \in Perms(S \ {x})} : x \in S}

\* the arrays getCommits can return for a given `since`
getCommits(since) ==
    LET must == {r \in UpstreamCommits : SinceFilter(r, since)}
        may == {r \in UpstreamCommits : since # NoDate /\ UpstreamDate(r) = NoDate}
    IN UNION {Perms(must \cup extra) : extra \in SUBSET may}

(***************************************************************************)
(* main: the 'since' computed from the stored maximum                      *)
(***************************************************************************)
SinceNoOffset(maxTs) == maxTs

SinceSkipsAhead(maxTs) == IF maxTs # NoDate THEN maxTs + SECOND + SECOND ELSE NoDate

SinceOf(maxTs) == IF maxTs # NoDate THEN maxTs + SECOND ELSE NoDate

(***************************************************************************)
(* Initial states                                                          *)
(***************************************************************************)
AllAbsent ==
    [owner |-> JsUndefined, repo |-> JsUndefined, cronSchedule |-> JsUndefined,
     kvFilename |-> JsUndefined, clearKvOnStartup |-> JsUndefined,
     useGithubToken |-> JsUndefined]

\* the config files of the sync specification
RunConfigs == {AllAbsent}

\* the upstream repository when the process starts: empty, or a linear history
\* of n commits, commit h authored and committed at second h
HistoryBody(h) ==
    [message |-> "m1",
     author |-> [present |-> TRUE, email |-> AuthorEmail, date |-> h],
     committer |-> [present |-> TRUE, email |-> CommitterEmail, date |-> h]]
InitialUpstreams ==
    {[h \in Shas |-> IF h <= n THEN HistoryBody(h) ELSE NoBody] :
        n \in {k \in 0..NumShas : k <= MaxTime}}

\* the locals of a call of main that has not begun
NoCall == [pc |-> "none", maxTimestamp |-> NoDate, parsedCommits |-> <<>>, idx |-> 1]

InitRest ==
    /\ phase = "boot"
    /\ cfgFailed = "none"
    /\ options = NoOptions
    /\ upstream \in InitialUpstreams
    /\ store = {}
    /\ pc = "none"
    /\ maxTimestamp = NoDate
    /\ data = <<>>
    /\ parsedCommits = <<>>
    /\ idx = 1
    /\ wmStart = NoDate
    /\ storeStart = {}
    /\ lastWrite = {}
    /\ triggers = 0
    /\ nPush = 0
    /\ removed = {}
    /\ effects = {}
    /\ cycles = 0
    /\ done = 0
    /\ failedSince = {}
    /\ nRestart = 0
    /\ main2 = NoCall
    /\ cronBusy = FALSE
    /\ ingested = {}

Init == configFile \in RunConfigs /\ files = {} /\ InitRest

(***************************************************************************)
(* import.meta.main: startup                                               *)
(***************************************************************************)
cycleVars == <<pc, maxTimestamp, data, parsedCommits, idx, wmStart, storeStart>>

\* the exception of readConfig is swallowed and the defaults are used
ReadConfigContinues ==
    /\ phase = "boot"
    /\ LET r == readConfig
       IN /\ cfgFailed' = r.failed
          /\ options' = IF r.failed = "none" THEN r.options
                        ELSE [repo |-> DefaultRepo, owner |-> DefaultOwner,
                              cronSchedule |-> DefaultCron,
                              kvFilename |-> DefaultKvFilename,
                              clearKvOnStartup |-> DefaultClearKvOnStartup,
                              useGithubToken |-> DefaultUseGithubToken]
          /\ phase' = "configured"
    /\ UNCHANGED <<configFile, upstream, store, cycleVars, lastWrite, triggers, nPush,
                   files, procVars, nRestart, main2, cronBusy, ingested>>

\* const options = readConfig(); an exception ends the process
ReadConfig ==
    /\ phase = "boot"
    /\ LET r == readConfig
       IN /\ cfgFailed' = r.failed
          /\ options' = r.options
          /\ phase' = IF r.failed = "none" THEN "configured" ELSE "aborted"
    /\ UNCHANGED <<configFile, upstream, store, cycleVars, lastWrite, triggers, nPush,
                   files, procVars, nRestart, main2, cronBusy, ingested>>

\* if (options.clearKvOnStartup) await clearKvFiles(options.kvFilename): every
\* matching entry is removed
ClearKvFiles ==
    /\ phase = "configured"
    /\ options.clearKvOnStartup
    /\ LET gone == clearKvFiles(files, options.kvFilename)
       IN /\ files' = files \ gone
          /\ removed' = removed \cup gone
          /\ effects' = effects \cup {"readDir"}
                           \cup (IF gone = {} THEN {} ELSE {"remove"})
          /\ store' = IF KvFile(options.kvFilename) \in gone THEN {} ELSE store
          /\ lastWrite' = IF KvFile(options.kvFilename) \in gone THEN {} ELSE lastWrite
          /\ ingested' = IF KvFile(options.kvFilename) \in gone THEN {} ELSE ingested
    /\ phase' = "cleared"
    /\ UNCHANGED <<configFile, cfgFailed, options, upstream, cycleVars, triggers, nPush,
                   cycles, done, failedSince, nRestart, main2, cronBusy>>

\* clearKvFiles when a Deno.remove throws: the entries before it are removed,
\* the error is logged and thrown again, and ends the process
ClearKvFilesFails ==
    /\ phase = "configured"
    /\ options.clearKvOnStartup
    /\ \E failing \in clearKvFiles(files, options.kvFilename) :
       \E gone \in SUBSET (clearKvFiles(files, options.kvFilename) \ {failing}) :
          /\ files' = files \ gone
          /\ removed' = removed \cup gone
          /\ effects' = effects \cup {"readDir", "remove"}
          /\ store' = IF KvFile(options.kvFilename) \in gone THEN {} ELSE store
          /\ lastWrite' = IF KvFile(options.kvFilename) \in gone THEN {} ELSE lastWrite
          /\ ingested' = IF KvFile(options.kvFilename) \in gone THEN {} ELSE ingested
    /\ phase' = "purgeFailed"
    /\ UNCHANGED <<configFile, cfgFailed, options, upstream, cycleVars, triggers, nPush,
                   cycles, done, failedSince, nRestart, main2, cronBusy>>

\* the store is opened without its path, in a fresh database
OpenKvNoPath ==
    /\ \/ phase = "cleared"
       \/ phase = "configured" /\ ~options.clearKvOnStartup
    /\ phase' = "opened"
    /\ effects' = effects \cup {"openKv"}
                     \cup (IF options.useGithubToken THEN {"env"} ELSE {})
    /\ store' = {}
    /\ UNCHANGED <<configFile, cfgFailed, options, upstream, cycleVars, files,
                   lastWrite, triggers, nPush, removed, cycles, done, failedSince,
                   nRestart, main2, cronBusy, ingested>>

\* if (options.useGithubToken) token = Deno.env.get(...); new Octokit({auth: token});
\* await Deno.openKv(options.kvFilename), which creates the file when it is missing
OpenKv ==
    /\ \/ phase = "cleared"
       \/ phase = "configured" /\ ~options.clearKvOnStartup
    /\ phase' = "opened"
    /\ effects' = effects \cup {"openKv"}
                     \cup (IF options.useGithubToken THEN {"env"} ELSE {})
    /\ files' = IF KvFile(options.kvFilename) = Elsewhere THEN files
                ELSE files \cup {KvFile(options.kvFilename)}
    /\ UNCHANGED <<configFile, cfgFailed, options, upstream, store, cycleVars,
                   lastWrite, triggers, nPush, removed, cycles, done, failedSince,
                   nRestart, main2, cronBusy, ingested>>

(***************************************************************************)
(* main(commitKv, octokit, repo, owner)                                    *)
(***************************************************************************)
\* let maxTimestamp = await getLatestStoredCommitTimestamp(commitKv, repo); + SECOND
MainStart ==
    /\ pc = "none"
    /\ wmStart' = getLatestStoredCommitTimestamp(store, options.repo)
    /\ maxTimestamp' = SinceOf(wmStart')
    /\ storeStart' = store
    /\ pc' = "fetch"
    /\ cycles' = cycles + 1
    /\ UNCHANGED <<data, parsedCommits, idx>>

\* a call of main begins: its locals are those of the model's first call, or
\* those of `main2' when a call is already running
CallMain ==
    \/ /\ pc = "none"
       /\ MainStart
       /\ UNCHANGED main2
    \/ /\ pc # "none"
       /\ main2.pc = "none"
       /\ main2' = [pc |-> "fetch",
                    maxTimestamp |->
                        SinceOf(getLatestStoredCommitTimestamp(store, options.repo)),
                    parsedCommits |-> <<>>,
                    idx |-> 1]
       /\ cycles' = cycles + 1
       /\ UNCHANGED cycleVars

\* the initial run awaited, by mistake, only after Deno.cron is registered
InitialRunAfterCron ==
    /\ phase = "opened"
    /\ MainStart
    /\ phase' = "scheduled"
    /\ effects' = effects \cup {"cron"}
    /\ UNCHANGED <<configFile, cfgFailed, options, upstream, store, lastWrite,
                   triggers, nPush, files, removed, done, failedSince, nRestart, main2, cronBusy, ingested>>

\* await main(...) of the startup block
InitialRun ==
    /\ phase = "opened"
    /\ MainStart
    /\ phase' = "initial"
    /\ UNCHANGED <<configFile, cfgFailed, options, upstream, store, lastWrite,
                   triggers, nPush, files, removed, effects, done, failedSince,
                   nRestart, main2, cronBusy, ingested>>

\* the Deno.cron runtime calls the callback, which calls main; it does not call
\* the callback while the previous call of the callback is running
CronTrigger ==
    /\ phase = "scheduled"
    /\ triggers < MaxTriggers
    /\ ~cronBusy
    /\ cronBusy' = TRUE
    /\ CallMain
    /\ triggers' = triggers + 1
    /\ UNCHANGED <<configFile, phase, cfgFailed, options, upstream, store, lastWrite,
                   nPush, files, removed, effects, done, failedSince, nRestart, ingested>>

\* a fetch that fails, by mistake, hands the pages it has to the caller
FetchFailsKeepsPages ==
    /\ pc = "fetch"
    /\ \E resp \in getCommits(maxTimestamp) :
       \E n \in 0..(Len(resp) - 1) :
          /\ data' = SubSeq(resp, 1, n)
          /\ parsedCommits' = parseCommits(SubSeq(resp, 1, n))
    /\ idx' = 1
    /\ pc' = "store"
    /\ effects' = effects \cup {"fetch"}
    /\ failedSince' = {maxTimestamp}
    /\ UNCHANGED <<configFile, phase, cfgFailed, options, upstream, store,
                   maxTimestamp, wmStart, storeStart, lastWrite, triggers, nPush,
                   files, removed, cycles, done, nRestart, main2, cronBusy, ingested>>

\* await getCommits(...) when octokit.paginate throws on some page: neither
\* getCommits nor main catches, the promise of main is rejected
FetchFails ==
    /\ pc = "fetch"
    /\ pc' = "rejected"
    /\ effects' = effects \cup {"fetch"}
    /\ failedSince' = {maxTimestamp}
    /\ UNCHANGED <<configFile, phase, cfgFailed, options, upstream, store,
                   maxTimestamp, data, parsedCommits, idx, wmStart, storeStart,
                   lastWrite, triggers, nPush, files, removed, cycles, done, nRestart, main2, cronBusy, ingested>>

\* const data = await getCommits(...); const parsedCommits = parseCommits(data)
GetCommits ==
    /\ pc = "fetch"
    /\ \E resp \in getCommits(maxTimestamp) :
          /\ data' = resp
          /\ parsedCommits' = parseCommits(resp)
    /\ idx' = 1
    /\ pc' = "store"
    /\ effects' = effects \cup {"fetch"}
    /\ failedSince' = {}
    /\ UNCHANGED <<configFile, phase, cfgFailed, options, upstream, store,
                   maxTimestamp, wmStart, storeStart, lastWrite, triggers, nPush,
                   files, removed, cycles, done, nRestart, main2, cronBusy, ingested>>

\* storeCommits with a return inside the loop: only the first record is written
StoreCommitFirstOnly ==
    /\ pc = "store"
    /\ idx <= Len(parsedCommits)
    /\ LET commit == parsedCommits[idx]
           key == CommitKey(options.repo, commit)
       IN /\ store' = KvSet(store, key, commit)
          /\ lastWrite' = {w \in lastWrite : w.key # key}
                             \cup {[key |-> key, value |-> commit]}
          /\ ingested' = ingested \cup {[key |-> key, owner |-> options.owner,
                                          repo |-> options.repo]}
    /\ idx' = Len(parsedCommits) + 1
    /\ UNCHANGED <<configFile, phase, cfgFailed, options, upstream, pc, maxTimestamp,
                   data, parsedCommits, wmStart, storeStart, triggers, nPush,
                   files, procVars, nRestart, main2, cronBusy>>

\* storeCommits: one iteration, await kv.set([`commits/${repo}`, key], commit)
StoreCommit ==
    /\ pc = "store"
    /\ idx <= Len(parsedCommits)
    /\ LET commit == parsedCommits[idx]
           key == CommitKey(options.repo, commit)
       IN /\ store' = KvSet(store, key, commit)
          /\ lastWrite' = {w \in lastWrite : w.key # key}
                             \cup {[key |-> key, value |-> commit]}
          /\ ingested' = ingested \cup {[key |-> key, owner |-> options.owner,
                                          repo |-> options.repo]}
    /\ idx' = idx + 1
    /\ UNCHANGED <<configFile, phase, cfgFailed, options, upstream, pc, maxTimestamp,
                   data, parsedCommits, wmStart, storeStart, triggers, nPush,
                   files, procVars, nRestart, main2, cronBusy>>

\* storeCommits when a kv.set throws: the writes before it stay, the promise of
\* main is rejected
StoreFails ==
    /\ pc = "store"
    /\ idx <= Len(parsedCommits)
    /\ pc' = "rejected"
    /\ UNCHANGED <<configFile, phase, cfgFailed, options, upstream, store,
                   maxTimestamp, data, parsedCommits, idx, wmStart, storeStart,
                   lastWrite, triggers, nPush, files, procVars, nRestart, main2, cronBusy, ingested>>

\* every write is done: main returns; after the initial run Deno.cron is registered
CycleComplete == pc = "store" /\ idx > Len(parsedCommits)

MainReturn ==
    /\ CycleComplete
    /\ pc' = "none"
    /\ cronBusy' = (phase # "initial" /\ main2.pc # "none")
    /\ phase' = IF phase = "initial" THEN "scheduled" ELSE phase
    /\ effects' = IF phase = "initial" THEN effects \cup {"cron"} ELSE effects
    /\ done' = done + 1
    \* the locals of main go out of scope
    /\ maxTimestamp' = NoDate
    /\ data' = <<>>
    /\ parsedCommits' = <<>>
    /\ idx' = 1
    /\ wmStart' = NoDate
    /\ storeStart' = {}
    /\ UNCHANGED <<configFile, cfgFailed, options, upstream, store, lastWrite,
                   triggers, nPush, files, removed, cycles, failedSince, nRestart, main2, ingested>>

\* the rejection of main reaches its caller: the top-level await of the startup
\* block, where it ends the process before Deno.cron is registered, or the
\* Deno.cron runtime, which logs it and keeps the schedule
MainRejected ==
    /\ pc = "rejected"
    /\ pc' = "none"
    /\ cronBusy' = (phase # "initial" /\ main2.pc # "none")
    /\ phase' = IF phase = "initial" THEN "crashed" ELSE phase
    /\ maxTimestamp' = NoDate
    /\ data' = <<>>
    /\ parsedCommits' = <<>>
    /\ idx' = 1
    /\ wmStart' = NoDate
    /\ storeStart' = {}
    /\ UNCHANGED <<configFile, cfgFailed, options, upstream, store, lastWrite,
                   triggers, nPush, files, procVars, nRestart, main2, ingested>>

(***************************************************************************)
(* The environment: the upstream repository changes between fetches        *)
(***************************************************************************)
UpstreamChange ==
    /\ phase \in {"boot", "scheduled"}
    /\ pc = "none"
    /\ main2.pc = "none"
    /\ nPush < MaxPush
    /\ \E h \in Shas, b \in UpstreamBodies :
          /\ upstream[h] # b
          /\ upstream' = [upstream EXCEPT ![h] = b]
    /\ nPush' = nPush + 1
    /\ UNCHANGED <<configFile, phase, cfgFailed, options, store, cycleVars,
                   lastWrite, triggers, files, procVars, nRestart, main2, cronBusy, ingested>>

Next ==
    \/ ReadConfig
    \/ ClearKvFiles
    \/ OpenKv
    \/ InitialRun
    \/ CronTrigger
    \/ GetCommits
    \/ StoreCommit
    \/ MainReturn
    \/ UpstreamChange

Spec == Init /\ [][Next]_vars

(***************************************************************************)
(* parseCommits on its own: every array of at most MaxBatch raw commits    *)
(* over two hashes and two dates.                                          *)
(***************************************************************************)
ParsePersons(email) ==
    {NoPerson} \cup [present : {TRUE}, email : {email}, date : {1, 2, NoDate}]
ParseInputCommits ==
    [sha : {1, 2}, message : Messages, author : ParsePersons(AuthorEmail),
     committer : ParsePersons(CommitterEmail)]
ParseInputs == UNION {[1..n -> ParseInputCommits] : n \in 0..MaxBatch}

InitParse ==
    /\ configFile = AllAbsent
    /\ files = {}
    /\ phase = "unit"
    /\ cfgFailed = "none"
    /\ options = NoOptions
    /\ upstream = [h \in Shas |-> NoBody]
    /\ store = {}
    /\ pc = "parse"
    /\ maxTimestamp = NoDate
    /\ data \in ParseInputs
    /\ parsedCommits = <<>>
    /\ idx = 1
    /\ wmStart = NoDate
    /\ storeStart = {}
    /\ lastWrite = {}
    /\ triggers = 0
    /\ nPush = 0
    /\ removed = {}
    /\ effects = {}
    /\ cycles = 0
    /\ done = 0
    /\ failedSince = {}
    /\ nRestart = 0
    /\ main2 = NoCall
    /\ cronBusy = FALSE
    /\ ingested = {}

ParseCommits ==
    /\ pc = "parse"
    /\ parsedCommits' = parseCommits(data)
    /\ pc' = "parsed"
    /\ UNCHANGED <<configFile, phase, cfgFailed, options, upstream, store,
                   maxTimestamp, data, idx, wmStart, storeStart, lastWrite,
                   triggers, nPush, files, procVars, nRestart, main2, cronBusy, ingested>>

SpecParse == InitParse /\ [][ParseCommits]_vars

(***************************************************************************)
(* readConfig and the startup block on every config file of ConfigFiles.   *)
(***************************************************************************)
NameTokens == {"data", ".", "/", "sqlite", "db"}
NameStrings == UNION {[1..n -> NameTokens] : n \in 1..MaxNameLen}

OwnerValues == {JsUndefined, JsNull, JsString(<<>>), JsString(<<"someone">>), JsNumber}
RepoValues == {JsUndefined, JsNull, JsString(<<>>), JsString(<<"somerepo">>), JsNumber}
CronValues ==
    {JsUndefined, JsString(<<>>), JsString(<<"* * * * *">>), JsString(<<"every day">>),
     JsNumber}
KvFilenameValues ==
    {JsUndefined, JsString(<<>>), JsString(<<"data", ".", "sqlite">>),
     JsString(<<"data", ".", "db">>), JsNumber}
YNValues ==
    {JsUndefined, JsBoolean(TRUE), JsBoolean(FALSE), JsString(<<"Y">>), JsNumber, JsNull}

ConfigFiles ==
    [owner : OwnerValues, repo : RepoValues, cronSchedule : CronValues,
     kvFilename : KvFilenameValues, clearKvOnStartup : YNValues,
     useGithubToken : YNValues]
    \cup {[AllAbsent EXCEPT !.kvFilename = JsString(n)] : n \in NameStrings}

\* the working directory of the config specification
ConfigDir ==
    {DefaultKvFilename, <<"data", ".", "sqlite">>, <<"notes", ".", "txt">>}

InitConfig ==
    /\ configFile \in ConfigFiles
    /\ files = ConfigDir
    /\ phase = "boot"
    /\ cfgFailed = "none"
    /\ options = NoOptions
    /\ upstream = [h \in Shas |-> NoBody]
    /\ store = {}
    /\ pc = "none"
    /\ maxTimestamp = NoDate
    /\ data = <<>>
    /\ parsedCommits = <<>>
    /\ idx = 1
    /\ wmStart = NoDate
    /\ storeStart = {}
    /\ lastWrite = {}
    /\ triggers = 0
    /\ nPush = 0
    /\ removed = {}
    /\ effects = {}
    /\ cycles = 0
    /\ done = 0
    /\ failedSince = {}
    /\ nRestart = 0
    /\ main2 = NoCall
    /\ cronBusy = FALSE
    /\ ingested = {}

NextConfig ==
    \/ ReadConfig
    \/ ClearKvFiles
    \/ OpenKv
    \/ InitialRun

SpecConfig == InitConfig /\ [][NextConfig]_vars

(***************************************************************************)
(* Cycles that fail: the fetch or a write throws.                          *)
(***************************************************************************)
\* the Deno.cron callback, called up to MaxFailTriggers times
CronTriggerRepeated ==
    /\ phase = "scheduled"
    /\ triggers < MaxFailTriggers
    /\ ~cronBusy
    /\ cronBusy' = TRUE
    /\ CallMain
    /\ triggers' = triggers + 1
    /\ UNCHANGED <<configFile, phase, cfgFailed, options, upstream, store, lastWrite,
                   nPush, files, removed, effects, done, failedSince, nRestart, ingested>>

\* the upstream repository changes while the process waits for a trigger
UpstreamPush ==
    /\ phase = "scheduled"
    /\ pc = "none"
    /\ main2.pc = "none"
    /\ nPush < MaxFailPush
    /\ \E h \in Shas, b \in UpstreamBodies :
          /\ upstream[h] # b
          /\ upstream' = [upstream EXCEPT ![h] = b]
    /\ nPush' = nPush + 1
    /\ UNCHANGED <<configFile, phase, cfgFailed, options, store, cycleVars,
                   lastWrite, triggers, files, procVars, nRestart, main2, cronBusy, ingested>>

NextFail ==
    \/ ReadConfig
    \/ ClearKvFiles
    \/ OpenKv
    \/ InitialRun
    \/ CronTriggerRepeated
    \/ GetCommits
    \/ FetchFails
    \/ StoreCommit
    \/ StoreFails
    \/ MainReturn
    \/ MainRejected
    \/ UpstreamPush

SpecFail == Init /\ [][NextFail]_vars

(***************************************************************************)
(* Cycles that are not interrupted: the fetch returns and every kv.set     *)
(* completes.  main awaits getCommits, then each kv.set in turn, then      *)
(* returns, so each of these steps, once it can be taken, is taken: weak   *)
(* fairness on GetCommits, StoreCommit and MainReturn.                     *)
(***************************************************************************)
NextLive ==
    \/ ReadConfig
    \/ ClearKvFiles
    \/ OpenKv
    \/ InitialRun
    \/ CronTriggerRepeated
    \/ GetCommits
    \/ StoreCommit
    \/ MainReturn
    \/ UpstreamPush

SpecLive ==
    /\ Init
    /\ [][NextLive]_vars
    /\ WF_vars(GetCommits)
    /\ WF_vars(StoreCommit)
    /\ WF_vars(MainReturn)

(***************************************************************************)
(* A store failure in a scheduled cycle: the upstream repository receives  *)
(* up to MaxAbortPush changes while the process waits for the trigger, so  *)
(* that the cycle has several records to write when a kv.set throws.       *)
(***************************************************************************)
UpstreamPushes ==
    /\ phase = "scheduled"
    /\ pc = "none"
    /\ main2.pc = "none"
    /\ nPush < MaxAbortPush
    /\ \E h \in Shas, b \in UpstreamBodies :
          /\ upstream[h] # b
          /\ upstream' = [upstream EXCEPT ![h] = b]
    /\ nPush' = nPush + 1
    /\ UNCHANGED <<configFile, phase, cfgFailed, options, store, cycleVars,
                   lastWrite, triggers, files, procVars, nRestart, main2, cronBusy,
                   ingested>>

NextAbort ==
    \/ ReadConfig
    \/ ClearKvFiles
    \/ OpenKv
    \/ InitialRun
    \/ CronTrigger
    \/ GetCommits
    \/ StoreCommit
    \/ StoreFails
    \/ MainReturn
    \/ MainRejected
    \/ UpstreamPushes

SpecAbort == Init /\ [][NextAbort]_vars

(***************************************************************************)
(* Startup and restart: the process is stopped and started again on the    *)
(* same working directory; the store file and the other files stay, the    *)
(* user may have changed clearKvOnStartup in config.json.                  *)
(***************************************************************************)
StartupConfigs ==
    {[AllAbsent EXCEPT !.kvFilename = k, !.clearKvOnStartup = c] :
        k \in {JsUndefined, JsString(<<".", "/", "data", ".", "sqlite">>)},
        c \in {JsUndefined, JsBoolean(TRUE), JsBoolean(FALSE)}}

\* files left in the working directory by something else
StrayFiles ==
    {<<"old">> \o DefaultKvFilename, DefaultKvFilename \o <<"-wal">>,
     <<"notes", ".", "txt">>}

InitStartup ==
    /\ configFile \in StartupConfigs
    /\ files \in {{}, StrayFiles}
    /\ InitRest

Restart ==
    /\ phase \in {"scheduled", "crashed", "aborted", "purgeFailed"}
    /\ pc = "none"
    /\ nRestart < MaxRestarts
    /\ nRestart' = nRestart + 1
    /\ configFile' \in {c \in StartupConfigs : c.kvFilename = configFile.kvFilename}
    /\ phase' = "boot"
    /\ cfgFailed' = "none"
    /\ options' = NoOptions
    /\ triggers' = 0
    /\ removed' = {}
    /\ effects' = {}
    /\ cycles' = 0
    /\ done' = 0
    /\ failedSince' = {}
    /\ main2' = NoCall
    /\ cronBusy' = FALSE
    /\ UNCHANGED <<upstream, store, cycleVars, lastWrite, nPush, files, ingested>>

NextStartup ==
    \/ ReadConfig
    \/ ClearKvFiles
    \/ ClearKvFilesFails
    \/ OpenKv
    \/ InitialRun
    \/ GetCommits
    \/ StoreCommit
    \/ MainReturn
    \/ Restart

SpecStartup == InitStartup /\ [][NextStartup]_vars

(***************************************************************************)
(* Several repositories on one store file: the process is started with     *)
(* clearKvOnStartup false, stopped, and started again with another owner   *)
(* or repo in config.json.  `upstream' is the repository the running       *)
(* process is configured for; a fork carries the hashes of its origin.     *)
(***************************************************************************)
RepoPairs ==
    {<<JsUndefined, JsUndefined>>,
     <<JsString(<<"forker">>), JsString(DefaultRepo)>>,
     <<JsString(<<"forker">>), JsString(<<"somerepo">>)>>}

RepoConfigs ==
    {[AllAbsent EXCEPT !.owner = p[1], !.repo = p[2],
                       !.clearKvOnStartup = JsBoolean(FALSE)] : p \in RepoPairs}

InitRepos ==
    /\ configFile \in RepoConfigs
    /\ files = {}
    /\ InitRest

RestartOnRepo ==
    /\ phase = "scheduled"
    /\ pc = "none"
    /\ nRestart < MaxRestarts
    /\ nRestart' = nRestart + 1
    /\ configFile' \in RepoConfigs
    /\ upstream' \in IF configFile' = configFile THEN {upstream} ELSE InitialUpstreams
    /\ phase' = "boot"
    /\ cfgFailed' = "none"
    /\ options' = NoOptions
    /\ triggers' = 0
    /\ removed' = {}
    /\ effects' = {}
    /\ cycles' = 0
    /\ done' = 0
    /\ failedSince' = {}
    /\ main2' = NoCall
    /\ cronBusy' = FALSE
    /\ UNCHANGED <<store, cycleVars, lastWrite, nPush, files, ingested>>

NextRepos ==
    \/ ReadConfig
    \/ OpenKv
    \/ InitialRun
    \/ GetCommits
    \/ StoreCommit
    \/ MainReturn
    \/ RestartOnRepo

SpecRepos == InitRepos /\ [][NextRepos]_vars

(***************************************************************************)
(* Overlapping cycles: a second call of main on the same store begins      *)
(* while a scheduled call is running (a scheduler that does not wait for   *)
(* the callback, or a second process on the same store file).  The two     *)
(* calls share the store and nothing else; their awaited steps interleave  *)
(* in any order, the scan of getLatestStoredCommitTimestamp being one step *)
(* and each kv.set one step.  The upstream repository does not change      *)
(* while a call is running.                                                *)
(***************************************************************************)
\* storeCommits as a whole: the store after every record has been set
RECURSIVE storeCommits(_, _, _)
storeCommits(kv, repo, commits) ==
    IF commits = <<>> THEN kv
    ELSE storeCommits(KvSet(kv, CommitKey(repo, Head(commits)), Head(commits)),
                      repo, Tail(commits))

\* main as a whole: the stores one uninterrupted call can leave behind
main(commitKv, repo) ==
    {storeCommits(commitKv, repo, parseCommits(resp)) :
        resp \in getCommits(SinceOf(getLatestStoredCommitTimestamp(commitKv, repo)))}

SecondCall ==
    /\ phase = "scheduled"
    /\ pc \in {"fetch", "store"}
    /\ triggers < MaxOverlapCalls
    /\ CallMain
    /\ triggers' = triggers + 1
    /\ UNCHANGED <<configFile, phase, cfgFailed, options, upstream, store, lastWrite,
                   nPush, files, removed, effects, done, failedSince, nRestart,
                   cronBusy, ingested>>

\* the second call: const data = await getCommits(...); parseCommits(data)
Main2GetCommits ==
    /\ main2.pc = "fetch"
    /\ \E resp \in getCommits(main2.maxTimestamp) :
          main2' = [main2 EXCEPT !.pc = "store", !.parsedCommits = parseCommits(resp)]
    /\ UNCHANGED <<configFile, phase, cfgFailed, options, upstream, store, cycleVars,
                   lastWrite, triggers, nPush, files, procVars, nRestart, cronBusy,
                   ingested>>

\* the second call: one iteration of storeCommits
Main2StoreCommit ==
    /\ main2.pc = "store"
    /\ main2.idx <= Len(main2.parsedCommits)
    /\ LET commit == main2.parsedCommits[main2.idx]
           key == CommitKey(options.repo, commit)
       IN /\ store' = KvSet(store, key, commit)
          /\ lastWrite' = {w \in lastWrite : w.key # key}
                             \cup {[key |-> key, value |-> commit]}
          /\ ingested' = ingested \cup {[key |-> key, owner |-> options.owner,
                                          repo |-> options.repo]}
    /\ main2' = [main2 EXCEPT !.idx = main2.idx + 1]
    /\ UNCHANGED <<configFile, phase, cfgFailed, options, upstream, cycleVars,
                   triggers, nPush, files, procVars, nRestart, cronBusy>>

Main2Complete == main2.pc = "store" /\ main2.idx > Len(main2.parsedCommits)

\* the second call returns
Main2Return ==
    /\ Main2Complete
    /\ main2' = NoCall
    /\ cronBusy' = (pc # "none")
    /\ done' = done + 1
    /\ UNCHANGED <<configFile, phase, cfgFailed, options, upstream, store, cycleVars,
                   lastWrite, triggers, nPush, files, removed, effects, cycles,
                   failedSince, nRestart, ingested>>

NextOverlap ==
    \/ ReadConfig
    \/ ClearKvFiles
    \/ OpenKv
    \/ InitialRun
    \/ CronTrigger
    \/ SecondCall
    \/ GetCommits
    \/ StoreCommit
    \/ MainReturn
    \/ Main2GetCommits
    \/ Main2StoreCommit
    \/ Main2Return
    \/ UpstreamPush

SpecOverlap == Init /\ [][NextOverlap]_vars

(***************************************************************************)
(* getLatestStoredCommitTimestamp on its own: every store of at most one   *)
(* record per hash for the repository, with or without a timestamp, and    *)
(* possibly a record of another repository; the scan visits the records of *)
(* the repository in any order.                                            *)
(***************************************************************************)
ScanRecord(repo, h, ts) ==
    [key |-> CommitKey(repo, [commitHash |-> h]),
     value |-> [commitHash |-> h, commitTimestamp |-> ts, commitMessage |-> "m1",
                commitEmail |-> AuthorEmail]]

ScanTimestamps == {NoDate} \cup {NewDate(d) : d \in RawDates}

\* the records a store can hold under each key
ScanChoices ==
    [Shas -> {{}} \cup {{ts} : ts \in ScanTimestamps}]

ScanStores ==
    {UNION {{ScanRecord(DefaultRepo, h, ts) : ts \in c[h]} : h \in Shas}
        \cup {ScanRecord(<<"somerepo">>, 1, ts) : ts \in other} :
        c \in ScanChoices, other \in {{}} \cup {{ts} : ts \in ScanTimestamps}}

InitScan ==
    /\ configFile = AllAbsent
    /\ files = {}
    /\ phase = "unit"
    /\ cfgFailed = "none"
    /\ options = [NoOptions EXCEPT !.repo = DefaultRepo]
    /\ upstream = [h \in Shas |-> NoBody]
    /\ store \in ScanStores
    /\ pc = "scan"
    /\ maxTimestamp = NoDate
    /\ data = <<>>
    /\ parsedCommits = <<>>
    /\ idx = 1
    /\ wmStart = NoDate
    /\ storeStart = {}
    /\ lastWrite = {}
    /\ triggers = 0
    /\ nPush = 0
    /\ removed = {}
    /\ effects = {}
    /\ cycles = 0
    /\ done = 0
    /\ failedSince = {}
    /\ nRestart = 0
    /\ main2 = NoCall
    /\ cronBusy = FALSE
    /\ ingested = {}

\* getLatestStoredCommitTimestamp(kv, repo), the iterator of kv.list yielding the
\* records under the prefix in some order
ScanStore ==
    /\ pc = "scan"
    /\ \E order \in Perms({e \in store : e.key[1] = KeyPrefix(options.repo)}) :
          wmStart' = ScanMax(order, NoDate)
    /\ pc' = "scanned"
    /\ UNCHANGED <<configFile, phase, cfgFailed, options, upstream, store,
                   maxTimestamp, data, parsedCommits, idx, storeStart, lastWrite,
                   triggers, nPush, files, procVars, nRestart, main2, cronBusy, ingested>>

SpecScan == InitScan /\ [][ScanStore]_vars

(***************************************************************************)
(* Vocabulary of the properties, stated without the program's operators.   *)
(***************************************************************************)
\* the records stored for the repository of this run
RepoEntries(kv) == {e \in kv : e.key[1] = <<"commits/">> \o options.repo}
StoredHashes(kv) == {e.value.commitHash : e \in RepoEntries(kv)}
StoredTimestamps(kv) == {e.value.commitTimestamp : e \in RepoEntries(kv)} \ {NoDate}
\* the maximum stored timestamp, NoDate when no record has one
Watermark(kv) ==
    IF StoredTimestamps(kv) = {} THEN NoDate
    ELSE CHOOSE t \in StoredTimestamps(kv) : \A u \in StoredTimestamps(kv) : u <= t

AuthorDated(raw) == raw.author.present /\ raw.author.date # NoDate
CommitterDated(raw) == raw.committer.present /\ raw.committer.date # NoDate
Undated(raw) == ~AuthorDated(raw) /\ ~CommitterDated(raw)
FetchedHashes == {data[i].sha : i \in 1..Len(data)}

NonEmptyStr(cfg) == cfg.t = "string" /\ Len(cfg.s) > 0
AbsentOrEmpty(cfg) == cfg.t = "undefined" \/ (cfg.t = "string" /\ Len(cfg.s) = 0)

(***************************************************************************)
(* C1                                                                      *)
(***************************************************************************)
\* C1: the store holds at most one record per (repository, commitHash); the
\* number of stored records is the number of distinct hashes written so far
\* (a write to a stored hash adds none), and the stored record of a hash
\* carries the field values of the latest write to it.
C1_IdempotentUpsert ==
    /\ \A h \in Shas : Cardinality({e \in RepoEntries(store) : e.value.commitHash = h}) <= 1
    /\ Cardinality(store) = Cardinality({w.value.commitHash : w \in lastWrite})
    /\ \A w \in lastWrite :
          \E e \in RepoEntries(store) :
             /\ e.value = w.value
             /\ \A f \in RepoEntries(store) :
                   f.value.commitHash = w.value.commitHash => f = e

\* a write has just replaced the stored record of a hash by other field values
C1_Witness ==
    /\ pc = "store"
    /\ idx > 1
    /\ \E e \in storeStart :
          /\ e.value.commitHash = parsedCommits[idx - 1].commitHash
          /\ e.value # parsedCommits[idx - 1]
          /\ \E f \in store : f.value = parsedCommits[idx - 1]
    /\ Cardinality(store) = Cardinality(storeStart)

(***************************************************************************)
(* C2                                                                      *)
(***************************************************************************)
\* no fetched commit whose hash is stored with a timestamp at the start of the
\* cycle parses to an absent or an earlier timestamp
RefetchedNotEarlier ==
    \A i \in 1..Len(parsedCommits) :
       \A e \in RepoEntries(storeStart) :
          (e.value.commitHash = parsedCommits[i].commitHash
              /\ e.value.commitTimestamp # NoDate)
             => /\ parsedCommits[i].commitTimestamp # NoDate
                /\ parsedCommits[i].commitTimestamp >= e.value.commitTimestamp

\* C2 as stated: for a repository with a stored timestamp, the watermark after a
\* completed cycle is at least the watermark before it, whatever was fetched.
C2_Original ==
    (CycleComplete /\ Watermark(storeStart) # NoDate)
       => Watermark(store) >= Watermark(storeStart)

\* C2 amended: the watermark after a completed cycle is at least the watermark
\* before it, provided no fetched commit whose hash is already stored with a
\* timestamp carries an absent or an earlier timestamp.
C2_WatermarkMonotone ==
    (CycleComplete /\ Watermark(storeStart) # NoDate /\ RefetchedNotEarlier)
       => /\ Watermark(store) >= Watermark(storeStart)
          /\ getLatestStoredCommitTimestamp(store, options.repo)
                >= getLatestStoredCommitTimestamp(storeStart, options.repo)

\* a completed cycle that fetched a stored hash again, with a later date
C2_Witness ==
    /\ CycleComplete
    /\ Watermark(storeStart) # NoDate
    /\ RefetchedNotEarlier
    /\ FetchedHashes \cap StoredHashes(storeStart) # {}
    /\ Watermark(store) > Watermark(storeStart)

(***************************************************************************)
(* C3                                                                      *)
(***************************************************************************)
\* C3: while a cycle runs, its 'since' is absent exactly when no record stored
\* at the start of the cycle has a timestamp, and is otherwise that maximum T
\* plus one second (1000 ms); no commit dated T is fetched or written.
C3_SinceFromStore ==
    pc \in {"fetch", "store"} =>
       LET T == Watermark(storeStart)
       IN /\ (maxTimestamp = NoDate) <=> (T = NoDate)
          /\ T # NoDate => maxTimestamp = T + 1000
          /\ (pc = "store" /\ T # NoDate) =>
                \A i \in 1..Len(data) :
                   /\ UpstreamDate(data[i]) * 1000 # T
                   /\ parsedCommits[i].commitTimestamp # T

\* a cycle has fetched while upstream holds a commit, not yet stored, dated
\* exactly at the stored maximum
C3_Witness ==
    /\ pc = "store"
    /\ Watermark(storeStart) # NoDate
    /\ \E h \in Shas :
          /\ upstream[h] # NoBody
          /\ h \notin StoredHashes(storeStart)
          /\ UpstreamDate(RawCommit(h, upstream[h])) * 1000 = Watermark(storeStart)
          /\ h \notin FetchedHashes

(***************************************************************************)
(* C4                                                                      *)
(***************************************************************************)
\* the fetched commits have distinct hashes and distinct author dates
DistinctDatedBatch ==
    /\ \A i \in 1..Len(data) : AuthorDated(data[i])
    /\ \A i, j \in 1..Len(data) :
          i # j => /\ data[i].sha # data[j].sha
                   /\ data[i].author.date # data[j].author.date

\* C4: a completed cycle that started from an empty store and fetched N commits
\* with distinct hashes and author dates leaves N records and a watermark equal
\* to the latest author date; a completed cycle that fetched nothing leaves the
\* store and the watermark as they were.
C4_EndToEnd ==
    CycleComplete =>
       /\ (storeStart = {} /\ data # <<>> /\ DistinctDatedBatch) =>
             /\ Cardinality(store) = Len(data)
             /\ \E i \in 1..Len(data) :
                   /\ \A j \in 1..Len(data) : data[j].author.date <= data[i].author.date
                   /\ getLatestStoredCommitTimestamp(store, options.repo)
                         = data[i].author.date * 1000
       /\ data = <<>> =>
             /\ store = storeStart
             /\ getLatestStoredCommitTimestamp(store, options.repo) = wmStart

\* the second cycle of the scenario: three records with dates T1 < T2 < T3 are
\* stored, the fetch since T3 + 1 s returned nothing
C4_Witness ==
    /\ CycleComplete
    /\ triggers = 1
    /\ data = <<>>
    /\ Cardinality(store) = 3
    /\ StoredTimestamps(store) = {1000, 2000, 3000}
    /\ wmStart = 3000
    /\ maxTimestamp = 4000

(***************************************************************************)
(* C5                                                                      *)
(***************************************************************************)
\* C5: a raw commit whose author is absent or undated and whose committer has a
\* date yields a record with the committer's date and the committer's email; a
\* record that carries the author's email has no timestamp or the author's.
C5_TimestampFallback ==
    pc = "parsed" =>
       /\ Len(parsedCommits) = Len(data)
       /\ \A i \in 1..Len(data) :
             LET raw == data[i]
                 rec == parsedCommits[i]
             IN /\ (~AuthorDated(raw) /\ CommitterDated(raw)) =>
                      /\ rec.commitTimestamp = raw.committer.date * 1000
                      /\ rec.commitEmail = raw.committer.email
                /\ (raw.author.present /\ rec.commitEmail = raw.author.email) =>
                      \/ rec.commitTimestamp = NoDate
                      \/ AuthorDated(raw) /\ rec.commitTimestamp = raw.author.date * 1000

\* parsed: a commit whose author has an email and no date, and whose committer
\* has a date
C5_Witness ==
    /\ pc = "parsed"
    /\ \E i \in 1..Len(data) :
          /\ data[i].author.present
          /\ data[i].author.date = NoDate
          /\ CommitterDated(data[i])
          /\ parsedCommits[i].commitEmail = CommitterEmail
          /\ parsedCommits[i].commitTimestamp = data[i].committer.date * 1000

(***************************************************************************)
(* C6                                                                      *)
(***************************************************************************)
\* C6: when a cycle completes, every fetched commit without any date has a
\* stored record with an absent timestamp, and the store has grown by the
\* number of fetched hashes that were not stored before.
C6_NoDateSurvival ==
    CycleComplete =>
       /\ \A i \in 1..Len(data) :
             Undated(data[i]) =>
                \E e \in RepoEntries(store) :
                   /\ e.value.commitHash = data[i].sha
                   /\ e.value.commitTimestamp = NoDate
       /\ Cardinality(store)
             = Cardinality(storeStart)
                  + Cardinality(FetchedHashes \ StoredHashes(storeStart))

\* a completed cycle fetched one undated commit whose hash was not stored
C6_Witness ==
    /\ CycleComplete
    /\ storeStart # {}
    /\ Len(data) = 1
    /\ Undated(data[1])
    /\ data[1].sha \notin StoredHashes(storeStart)
    /\ Cardinality(store) = Cardinality(storeStart) + 1

(***************************************************************************)
(* C7                                                                      *)
(***************************************************************************)
ExactlyOneOfPair ==
    \/ NonEmptyStr(configFile.owner) /\ ~NonEmptyStr(configFile.repo)
    \/ ~NonEmptyStr(configFile.owner) /\ NonEmptyStr(configFile.repo)

PairIsConfigured ==
    /\ NonEmptyStr(configFile.owner) /\ NonEmptyStr(configFile.repo)
    /\ options.owner = configFile.owner.s /\ options.repo = configFile.repo.s
PairIsDefault ==
    options.owner = <<"nakennedy11">> /\ options.repo = <<"cs4550hw01">>

EndsInDotSqlite(str) ==
    Len(str) >= 2 /\ str[Len(str) - 1] = "." /\ str[Len(str)] = "sqlite"

\* the filename validation ran and returned the configured filename
KvFilenameUsed ==
    /\ NonEmptyStr(configFile.kvFilename)
    /\ cfgFailed \notin {"repo", "cronSchedule", "kvFilename"}
    /\ phase = "configured" => options.kvFilename = configFile.kvFilename.s

\* C9: when the filename validation has run, the configured store filename is
\* used if and only if it is a non-empty string ending in .sqlite.
C9_ExtensionValidation ==
    (phase # "boot" /\ cfgFailed \notin {"repo", "cronSchedule"})
       => (KvFilenameUsed
              <=> (NonEmptyStr(configFile.kvFilename)
                     /\ EndsInDotSqlite(configFile.kvFilename.s)))

(***************************************************************************)
(* C10                                                                     *)
(***************************************************************************)
\* C10: a non-empty cron schedule that does not parse does not make readConfig
\* fail; the default schedule is used.
C10_CronFallback ==
    (/\ phase # "boot"
     /\ cfgFailed # "repo"
     /\ NonEmptyStr(configFile.cronSchedule)
     /\ configFile.cronSchedule.s \notin {<<"*/5 * * * *">>, <<"* * * * *">>})
       => /\ cfgFailed # "cronSchedule"
          /\ phase = "configured" => options.cronSchedule = <<"*/5 * * * *">>

(***************************************************************************)
(* C11                                                                     *)
(***************************************************************************)
\* the validators before those of the boolean options have returned
BooleansReached ==
    phase # "boot" /\ cfgFailed \notin {"repo", "cronSchedule", "kvFilename"}

C12_InitialThenScheduled ==
    /\ phase \in {"boot", "configured", "cleared", "opened", "aborted", "purgeFailed"}
          => (cycles = 0 /\ triggers = 0 /\ "cron" \notin effects)
    /\ phase \in {"initial", "crashed"}
          => (cycles = 1 /\ triggers = 0 /\ done = 0 /\ "cron" \notin effects)
    /\ "cron" \in effects => (phase = "scheduled" /\ done >= 1)
    /\ phase = "scheduled" => ("cron" \in effects /\ cycles = triggers + 1)
    /\ (phase = "scheduled" /\ triggers = 0) => (done = 1 /\ pc = "none")

\* the second triggered cycle is writing: three cycles started, two triggers
C12_Witness ==
    /\ phase = "scheduled"
    /\ triggers = 2
    /\ cycles = 3
    /\ done = 2
    /\ pc = "store"
    /\ idx > 1

(***************************************************************************)
(* C13                                                                     *)
(***************************************************************************)
\* C13: a cycle whose fetch has failed never reaches its writes and leaves the
\* store, and so the watermark, as they were when it started; until a fetch
\* succeeds, the 'since' of the failed fetch is the one the store yields, and the
\* next cycle calls the fetch with it.
C13_FailedFetchRetries ==
    failedSince # {} =>
       /\ pc # "store"
       /\ pc = "rejected" =>
             /\ store = storeStart
             /\ Watermark(store) = Watermark(storeStart)
             /\ maxTimestamp \in failedSince
       /\ pc = "fetch" => maxTimestamp \in failedSince
       /\ failedSince = {IF Watermark(store) = NoDate THEN NoDate
                         ELSE Watermark(store) + 1000}

\* the cycle after a failed incremental fetch is about to fetch, with the same
\* 'since', while the upstream holds a commit that the failed fetch asked for
C13_Witness ==
    /\ pc = "fetch"
    /\ triggers = 2
    /\ failedSince = {maxTimestamp}
    /\ maxTimestamp # NoDate
    /\ \E h \in Shas :
          /\ upstream[h] # NoBody
          /\ UpstreamDate(RawCommit(h, upstream[h])) * 1000 >= maxTimestamp

(***************************************************************************)
(* C14                                                                     *)
(***************************************************************************)
\* C14: an error raised by the fetch or by a write of any cycle, the first one
\* included, does not end the process: once a cycle has ended, by returning or by
\* throwing, the schedule is registered.
C14_CycleErrorsSurvive ==
    /\ phase # "crashed"
    /\ (cycles >= 1 /\ pc = "none") => (phase = "scheduled" /\ "cron" \in effects)

(***************************************************************************)
(* C15                                                                     *)
(***************************************************************************)
\* C15: when a validator of readConfig has thrown, the process has ended without
\* reading the directory, removing a file, reading the token, opening the store
\* or calling main.
C15_ConfigErrorBeforeEffects ==
    cfgFailed # "none" =>
       /\ phase = "aborted"
       /\ effects = {}
       /\ removed = {}
       /\ files = {<<".", "commitHistory", ".", "sqlite">>, <<"data", ".", "sqlite">>,
                   <<"notes", ".", "txt">>}
       /\ store = {}
       /\ cycles = 0
       /\ pc = "none"

\* readConfig failed on its last field, with a purge requested for a store file
\* that exists
C15_Witness ==
    /\ phase = "aborted"
    /\ cfgFailed = "useGithubToken"
    /\ configFile.clearKvOnStartup = [t |-> "boolean", s |-> <<>>, b |-> TRUE]
    /\ configFile.kvFilename.s = <<"data", ".", "sqlite">>
    /\ <<"data", ".", "sqlite">> \in files

(***************************************************************************)
(* C16                                                                     *)
(***************************************************************************)
\* C16: with clearKvOnStartup set, the purge has run before the store is opened
\* and the first cycle starts from an empty store, with no watermark and no
\* 'since'; a purge that matches nothing removes nothing; after a failed removal
\* the store is not opened and no cycle runs.
C16_PurgeBeforeFirstCycle ==
    /\ (options.clearKvOnStartup /\ "openKv" \in effects) => "readDir" \in effects
    /\ (options.clearKvOnStartup /\ phase = "initial" /\ pc = "fetch") =>
          /\ storeStart = {}
          /\ wmStart = NoDate
          /\ maxTimestamp = NoDate
    /\ (phase = "cleared" /\ "remove" \notin effects) => removed = {}
    /\ phase = "purgeFailed" => ("openKv" \notin effects /\ cycles = 0)

(***************************************************************************)
(* C17                                                                     *)
(***************************************************************************)
StartsWith(name, prefix) ==
    Len(name) >= Len(prefix) /\ SubSeq(name, 1, Len(prefix)) = prefix

\* C17: every file the purge has removed has a name that starts with the
\* configured store filename; after the purge no file with such a name is left
\* (but the store file, once it is opened again); without clearKvOnStartup no
\* file is removed.
C17_PurgeExactlyPrefix ==
    /\ \A name \in removed : StartsWith(name, options.kvFilename)
    /\ (options.clearKvOnStartup /\ "readDir" \in effects /\ phase # "purgeFailed") =>
          \A name \in files :
             StartsWith(name, options.kvFilename)
                => ("openKv" \in effects /\ name = options.kvFilename)
    /\ ~options.clearKvOnStartup => removed = {}

(***************************************************************************)
(* C18                                                                     *)
(***************************************************************************)
\* C18: when the first cycle of a restarted process with clearKvOnStartup false
\* is about to fetch, every record written by the earlier runs is in the store,
\* and the 'since' is the maximum stored timestamp plus one second, absent only
\* when no record has a timestamp.
C18_RestartIncremental ==
    (/\ nRestart >= 1
     /\ phase = "initial"
     /\ pc = "fetch"
     /\ ~options.clearKvOnStartup) =>
       /\ lastWrite \subseteq store
       /\ (\E w \in lastWrite : w.value.commitTimestamp # NoDate) => maxTimestamp # NoDate
       /\ \A w \in lastWrite : w.value.commitTimestamp + 1000 <= maxTimestamp
                                  \/ w.value.commitTimestamp = NoDate
       /\ maxTimestamp # NoDate =>
             \E w \in lastWrite : w.value.commitTimestamp + 1000 = maxTimestamp

\* restarted on a store of three records, the first cycle fetches since the
\* latest of them plus one second
C18_Witness ==
    /\ nRestart = 1
    /\ phase = "initial"
    /\ pc = "fetch"
    /\ configFile.clearKvOnStartup = [t |-> "boolean", s |-> <<>>, b |-> FALSE]
    /\ Cardinality(store) = 3
    /\ maxTimestamp = 4000

(***************************************************************************)
(* C19                                                                     *)
(***************************************************************************)
\* the value of a config field when it is a string, a boolean
ConfiguredString(cfg) == IF cfg.t = "string" THEN {cfg.s} ELSE {}
ConfiguredBoolean(cfg) == IF cfg.t = "boolean" THEN {cfg.b} ELSE {}

\* C19: when readConfig returns, every field of the result is its configured
\* value or its default; with every field absent the result is cs4550hw01,
\* nakennedy11, */5 * * * *, .commitHistory.sqlite, true, false.
C19_Defaults ==
    (phase # "boot" /\ cfgFailed = "none") =>
       /\ (\A f \in DOMAIN configFile : configFile[f].t = "undefined") =>
             options = [repo |-> <<"cs4550hw01">>, owner |-> <<"nakennedy11">>,
                        cronSchedule |-> <<"*/5 * * * *">>,
                        kvFilename |-> <<".", "commitHistory", ".", "sqlite">>,
                        clearKvOnStartup |-> TRUE, useGithubToken |-> FALSE]
       /\ options.repo \in {<<"cs4550hw01">>} \cup ConfiguredString(configFile.repo)
       /\ options.owner \in {<<"nakennedy11">>} \cup ConfiguredString(configFile.owner)
       /\ options.cronSchedule
             \in {<<"*/5 * * * *">>} \cup ConfiguredString(configFile.cronSchedule)
       /\ options.kvFilename
             \in {<<".", "commitHistory", ".", "sqlite">>}
                    \cup ConfiguredString(configFile.kvFilename)
       /\ options.clearKvOnStartup
             \in {TRUE} \cup ConfiguredBoolean(configFile.clearKvOnStartup)
       /\ options.useGithubToken
             \in {FALSE} \cup ConfiguredBoolean(configFile.useGithubToken)

\* readConfig has returned for a config file with every field absent
C19_Witness ==
    /\ phase = "configured"
    /\ \A f \in DOMAIN configFile : configFile[f].t = "undefined"
    /\ options.clearKvOnStartup
    /\ options.kvFilename = <<".", "commitHistory", ".", "sqlite">>

(***************************************************************************)
(* C20                                                                     *)
(***************************************************************************)
\* C20: whatever the store holds and in whatever order the scan visits the
\* records, getLatestStoredCommitTimestamp returns the maximum timestamp of the
\* records of the repository that have one, and absent when none has.
C20_ScanReturnsMax ==
    pc = "scanned" =>
       /\ wmStart = Watermark(store)
       /\ (wmStart = NoDate)
             <=> (\A e \in RepoEntries(store) : e.value.commitTimestamp = NoDate)

\* scanned: a store with two timestamped records and an undated one of the
\* repository, and a later record of another repository
C20_Witness ==
    /\ pc = "scanned"
    /\ Cardinality(StoredTimestamps(store)) = 2
    /\ \E e \in RepoEntries(store) : e.value.commitTimestamp = NoDate
    /\ \E e \in store \ RepoEntries(store) :
          \A t \in StoredTimestamps(store) : e.value.commitTimestamp > t
    /\ wmStart = 2000

(***************************************************************************)
(* C21  Every record produced by parseCommits with commitTimestamp absent  *)
(* also has commitEmail absent, whatever emails the author and committer   *)
(* sub-records carry; its hash and message are still populated.            *)
(* Checked under SpecParse.                                                *)
(***************************************************************************)
C21_UndatedHasNoEmail ==
    pc = "parsed" =>
        \A i \in 1..Len(parsedCommits) :
            parsedCommits[i].commitTimestamp = NoDate =>
                /\ parsedCommits[i].commitEmail = NoEmail
                /\ parsedCommits[i].commitHash \in Shas
                /\ parsedCommits[i].commitMessage \in Messages

\* C21 as the loop body computes it: a record without a timestamp carries
\* the author's email when the author sub-record is present and no email
\* otherwise, never the committer's; hash and message are those of the raw
\* commit.
C21_UndatedKeepsAuthorEmail ==
    pc = "parsed" =>
        /\ Len(parsedCommits) = Len(data)
        /\ \A i \in 1..Len(parsedCommits) :
               parsedCommits[i].commitTimestamp = NoDate =>
                   /\ parsedCommits[i].commitEmail =
                          IF data[i].author.present
                          THEN data[i].author.email ELSE NoEmail
                   /\ parsedCommits[i].commitHash = data[i].sha
                   /\ parsedCommits[i].commitMessage = data[i].message

\* an undated commit whose author and committer both carry an email
C21_Witness ==
    /\ pc = "parsed"
    /\ \E i \in 1..Len(data) :
           /\ Undated(data[i])
           /\ data[i].author.present
           /\ data[i].committer.present
           /\ parsedCommits[i].commitTimestamp = NoDate
           /\ parsedCommits[i].commitEmail = AuthorEmail

(***************************************************************************)
(***************************************************************************)
(* C22  If a cycle is aborted after issuing only some of its writes (a     *)
(* store failure or crash inside storeCommits), the watermark read by the  *)
(* next cycle is the same as or earlier than the watermark the aborted     *)
(* cycle started from, so the records that were not written are requested  *)
(* again.  Checked under SpecAbort: when a kv.set of a scheduled cycle has  *)
(* thrown after at least one write, the watermark the store now yields is  *)
(* not later than wmStart and every record not yet written passes the      *)
(* `since' derived from it.                                                *)
(***************************************************************************)
AbortedMidStore ==
    /\ phase = "scheduled"
    /\ pc = "rejected"
    /\ failedSince = {}
    /\ 1 < idx
    /\ idx <= Len(parsedCommits)

NextWatermark == getLatestStoredCommitTimestamp(store, options.repo)

RequestedAgain(commit) ==
    \/ SinceOf(NextWatermark) = NoDate
    \/ commit.commitTimestamp = NoDate
    \/ commit.commitTimestamp >= SinceOf(NextWatermark)

C22_AbortKeepsWatermark ==
    AbortedMidStore =>
        /\ NextWatermark <= wmStart
        /\ \A i \in idx..Len(parsedCommits) : RequestedAgain(parsedCommits[i])

(* C23  parseCommits is one-to-one and order-preserving: for every input   *)
(* sequence the output has the same length and, for every index i, the     *)
(* i-th record's commitHash and commitMessage are the sha and message of   *)
(* the i-th raw commit.  Checked under SpecParse.                          *)
(***************************************************************************)
C23_OneToOneInOrder ==
    pc = "parsed" =>
        /\ Len(parsedCommits) = Len(data)
        /\ \A i \in 1..Len(data) :
               /\ parsedCommits[i].commitHash = data[i].sha
               /\ parsedCommits[i].commitMessage = data[i].message

\* two raw commits that differ in sha and in message, both parsed
C23_Witness ==
    /\ pc = "parsed"
    /\ Len(data) = 2
    /\ Len(parsedCommits) = 2
    /\ data[1].sha # data[2].sha
    /\ data[1].message # data[2].message

(***************************************************************************)
(* C24  At every moment at most one cycle is in flight: a schedule trigger *)
(* never starts a cycle while the previous cycle (including the initial    *)
(* one) has not finished.  Checked under SpecFail, where cycles also end   *)
(* by rejection: the number of calls of main that have begun and not yet   *)
(* returned or been rejected never exceeds one.  The startup block awaits  *)
(* the initial call before it registers the callback, and Deno.cron does   *)
(* not call the callback while its previous call is running.               *)
(***************************************************************************)
InFlight ==
    (IF pc # "none" THEN 1 ELSE 0) + (IF main2.pc # "none" THEN 1 ELSE 0)

AllFetchedWritten ==
    /\ Len(parsedCommits) = Len(data)
    /\ \A i \in 1..Len(parsedCommits) :
           [key |-> CommitKey(options.repo, parsedCommits[i]),
            value |-> parsedCommits[i]] \in store

C25_CycleCompletes ==
    /\ (pc = "fetch") ~> CycleComplete
    /\ [](CycleComplete => AllFetchedWritten)

\* a cycle started by a trigger has fetched a record and has completed
C25_Witness ==
    /\ phase = "scheduled"
    /\ triggers >= 1
    /\ CycleComplete
    /\ Len(parsedCommits) >= 1
    /\ AllFetchedWritten

(***************************************************************************)
(* C26  Only storeCommits changes the store during a process lifetime:     *)
(* getLatestStoredCommitTimestamp, getCommits and parseCommits leave every *)
(* stored record unchanged, and no cycle ever deletes a record, so the set *)
(* of stored commit hashes of a repository never shrinks between the store *)
(* being opened and the process ending.  Checked under SpecFail as a       *)
(* property of every step taken once the store is open: the step keeps     *)
(* every stored hash, and if it changes the store it is one iteration of   *)
(* storeCommits, which leaves every record under another key as it was.    *)
(***************************************************************************)
StoreOpen == "openKv" \in effects

StoreCommitsIteration ==
    /\ pc = "store"
    /\ pc' = "store"
    /\ idx <= Len(parsedCommits)
    /\ idx' = idx + 1
    /\ \A e \in store :
           e.key # CommitKey(options.repo, parsedCommits[idx]) => e \in store'

C26_OnlyStoreCommitsWrites ==
    [][StoreOpen =>
          /\ StoredHashes(store) \subseteq StoredHashes(store')
          /\ store' # store => StoreCommitsIteration]_vars

\* a scheduled cycle has written a record into a store that already held some
C26_Witness ==
    /\ StoreOpen
    /\ phase = "scheduled"
    /\ pc = "store"
    /\ idx > 1
    /\ storeStart # {}
    /\ store # storeStart

(***************************************************************************)
(* C27  After every successfully completed cycle, every commit that was    *)
(* present upstream when that cycle fetched is in the store, including     *)
(* commits that appeared upstream after an earlier cycle with a timestamp  *)
(* equal to or older than the watermark stored at that time.  Checked      *)
(* under SpecFail, where the upstream does not change while a cycle runs;  *)
(* the formula speaks of the commits that carry a date.                    *)
(***************************************************************************)
DatedUpstream == {r \in UpstreamCommits : UpstreamDate(r) # NoDate}

StoredAsFetched(raw) ==
    [key |-> CommitKey(options.repo, ParseOne(raw)[1]),
     value |-> ParseOne(raw)[1]] \in store

C27_AllUpstreamStored ==
    CycleComplete => \A r \in DatedUpstream : r.sha \in StoredHashes(store)

\* C27 as main computes it: the cycle stores every upstream commit when the
\* store yielded no watermark, and otherwise every upstream commit dated at
\* least one second after the watermark it read; older commits are not asked
\* for.
C27_NewerThanWatermarkStored ==
    CycleComplete =>
        /\ wmStart = NoDate => \A r \in UpstreamCommits : StoredAsFetched(r)
        /\ \A r \in DatedUpstream :
               NewDate(UpstreamDate(r)) >= wmStart + SECOND => StoredAsFetched(r)

\* a scheduled cycle has stored a commit dated after the watermark it read
C27_Witness ==
    /\ CycleComplete
    /\ phase = "scheduled"
    /\ wmStart # NoDate
    /\ \E r \in DatedUpstream :
           /\ NewDate(UpstreamDate(r)) >= wmStart + SECOND
           /\ r.sha \notin StoredHashes(storeStart)
           /\ StoredAsFetched(r)

(***************************************************************************)
(* C28  A cycle for a repository (owner, repo) reads its watermark from,   *)
(* and writes its records to, only the records ingested from that same     *)
(* (owner, repo): records stored for a different repository name, or for a *)
(* repository of the same name under a different owner in an earlier run   *)
(* on the same store file, never change the 'since' value of the cycle and *)
(* are never overwritten by it.  Checked under SpecRepos: the `since' of a *)
(* cycle is the one derived from the records written for its own (owner,   *)
(* repo) alone, and no key is written for two different (owner, repo).     *)
(***************************************************************************)
WrittenOnlyForThisRepo(e) ==
    \A g \in ingested :
        g.key = e.key => (g.owner = options.owner /\ g.repo = options.repo)

OwnTimestamps ==
    {e.value.commitTimestamp : e \in {x \in store : WrittenOnlyForThisRepo(x)}}
        \ {NoDate}

OwnWatermark ==
    IF OwnTimestamps = {} THEN NoDate
    ELSE CHOOSE t \in OwnTimestamps : \A u \in OwnTimestamps : u <= t

C28_RepositoriesIsolated ==
    /\ pc = "fetch" => maxTimestamp = SinceOf(OwnWatermark)
    /\ \A g1, g2 \in ingested :
           g1.key = g2.key => (g1.owner = g2.owner /\ g1.repo = g2.repo)

(***************************************************************************)
(* C29  If two cycles for the same repository overlap (both read the       *)
(* watermark before either has finished writing) against an unchanged      *)
(* upstream, then once both have completed the store holds the same set of *)
(* records as after running the two cycles one after the other: no         *)
(* duplicate key, no lost record, and the same watermark.  Checked under   *)
(* SpecOverlap: when both calls have done all their writes, the store is   *)
(* one of the stores that two uninterrupted calls of main, run in turn     *)
(* from the store the first call started from, can leave behind.           *)
(***************************************************************************)
BothComplete == CycleComplete /\ Main2Complete

OneAfterTheOther ==
    UNION {main(k, options.repo) : k \in main(storeStart, options.repo)}

NoDuplicateKey == \A e1, e2 \in store : e1.key = e2.key => e1 = e2

NoLostRecord ==
    /\ \A i \in 1..Len(parsedCommits) :
           [key |-> CommitKey(options.repo, parsedCommits[i]),
            value |-> parsedCommits[i]] \in store
    /\ \A i \in 1..Len(main2.parsedCommits) :
           [key |-> CommitKey(options.repo, main2.parsedCommits[i]),
            value |-> main2.parsedCommits[i]] \in store

C29_OverlapAsSequential ==
    BothComplete =>
        /\ store \in OneAfterTheOther
        /\ NoDuplicateKey
        /\ NoLostRecord
        /\ Watermark(store) \in {Watermark(k) : k \in OneAfterTheOther}

\* both calls read the same watermark, fetched the same new commit and wrote it
C29_Witness ==
    /\ BothComplete
    /\ main2.maxTimestamp = maxTimestamp
    /\ Len(parsedCommits) >= 1
    /\ Len(main2.parsedCommits) >= 1
    /\ store # storeStart

====
